---------------------------- MODULE Spec2Model ----------------------------
(***************************************************************************)
(* Model of confluent_cloud_sdk/confluent_iam_v2.py: the IAM v2 resource   *)
(* proxies IamV2Object, ServiceAccount and ApiKey.                         *)
(*                                                                         *)
(* A Python str is a sequence of one-character strings; URL constants of   *)
(* the client and of the server are kept as one opaque element.  Python's  *)
(* None is the one-element sequence None below, which no str equals.       *)
(* An object is a record of its attributes; attribute assignment is Set.   *)
(***************************************************************************)
EXTENDS Naturals, Sequences, FiniteSets, TLC

VARIABLES
    obj,     \* the proxy object under observation (its attributes)
    calls,   \* the transport requests issued by the last operation, in order
    last,    \* the last operation: its name, arguments, outcome and response
    created  \* whether an ApiKey.create() has succeeded on obj

vars == <<obj, calls, last, created>>

-----------------------------------------------------------------------------
(* Python values *)

None == <<"None">>

\* Python truthiness of an Optional[str]: None and "" are falsy.
Truthy(v) == v /= None /\ v /= <<>>

\* str(v) as an f-string renders it.
Fmt(v) == IF v = None THEN <<"N", "o", "n", "e">> ELSE v

\* self.<k> = v
Set(self, k, v) ==
    IF k \in DOMAIN self THEN [self EXCEPT ![k] = v]
    ELSE [f \in DOMAIN self \cup {k} |-> IF f = k THEN v ELSE self[f]]

\* str.upper() and str.lower() of one ASCII letter.
UpperOf ==
    [a |-> "A", b |-> "B", c |-> "C", d |-> "D", e |-> "E", f |-> "F", g |-> "G",
     h |-> "H", i |-> "I", j |-> "J", k |-> "K", l |-> "L", m |-> "M", n |-> "N",
     o |-> "O", p |-> "P", q |-> "Q", r |-> "R", s |-> "S", t |-> "T", u |-> "U",
     v |-> "V", w |-> "W", x |-> "X", y |-> "Y", z |-> "Z"]
LowerOf ==
    [A |-> "a", B |-> "b", C |-> "c", D |-> "d", E |-> "e", F |-> "f", G |-> "g",
     H |-> "h", I |-> "i", J |-> "j", K |-> "k", L |-> "l", M |-> "m", N |-> "n",
     O |-> "o", P |-> "p", Q |-> "q", R |-> "r", S |-> "s", T |-> "t", U |-> "u",
     V |-> "v", W |-> "w", X |-> "x", Y |-> "y", Z |-> "z"]

IsLower(c) == c \in DOMAIN UpperOf
IsUpper(c) == c \in DOMAIN LowerOf
IsCased(c) == IsLower(c) \/ IsUpper(c)
ToUpper(c) == IF IsLower(c) THEN UpperOf[c] ELSE c
ToLower(c) == IF IsUpper(c) THEN LowerOf[c] ELSE c

\* str.title(): a cased character is upper-cased when it follows an uncased
\* one (or starts the string) and lower-cased when it follows a cased one.
RECURSIVE TitleFrom(_, _)
TitleFrom(s, prevCased) ==
    IF s = <<>> THEN <<>>
    ELSE <<IF prevCased THEN ToLower(Head(s)) ELSE ToUpper(Head(s))>>
         \o TitleFrom(Tail(s), IsCased(Head(s)))

Title(s) == TitleFrom(s, FALSE)

\* str.replace("::", " "): leftmost non-overlapping occurrences.
RECURSIVE ReplaceColons(_)
ReplaceColons(s) ==
    IF s = <<>> THEN <<>>
    ELSE IF Len(s) >= 2 /\ s[1] = ":" /\ s[2] = ":"
         THEN <<" ">> \o ReplaceColons(SubSeq(s, 3, Len(s)))
         ELSE <<s[1]>> \o ReplaceColons(Tail(s))

-----------------------------------------------------------------------------
(* Bounds of the model *)

\* Longest data array an import_api_keys() response carries.
MaxData == 2
\* Longest credential list an Account accumulates.
MaxKeys == 2
\* Longest listing a list() response carries to set_from_read().
MaxListing == 2

-----------------------------------------------------------------------------
(* The injected client and the remote service *)

\* self._client.api_url
api_url == <<"https://api">>

api_v2_path == <<"/iam/v2">>
api_keys_path == api_v2_path \o <<"/api-keys">>
services_accounts_path == api_v2_path \o <<"/service-accounts">>

AccountIds == {<<"s","a","-","1">>, <<"s","a","-","2">>}
KeyIds == {<<"k","1">>, <<"k","2">>}
ResourceIds == {<<"r","1">>, <<"r","2">>}
Names == {<<"s","v","c","-","a">>, <<"m","y"," ","s","v","c">>}
Descriptions == {<<"D","1">>, <<"D","2">>}
Secrets == {<<"x","1">>}
\* The display names callers look accounts up by.
LookupNames == {<<"s","v","c","-","a">>}
\* The owner and resource ids callers pass to ApiKey.create().
CallerOwnerIds == {<<"s","a","-","1">>}
CallerResourceIds == {<<"r","2">>}
\* The ids the service assigns to new keys.
AssignedKeyIds == {<<"k","2">>}
KeyNames == {<<"k","e","y">>}
KeyDescriptions == {<<"D","1">>}

\* The canonical link the server reports for the resource id (metadata.self).
ServerSelf(id) == <<"https://x/">> \o id

Opt(S) == S \cup {None}
OptArg(S) == S \cup {None, <<>>}

SeqsUpTo(S, n) == UNION {[1..k -> S] : k \in 0..n}

\* Sequences without repetition.
DistinctSeqsUpTo(S, n) ==
    {q \in SeqsUpTo(S, n) : \A i, j \in DOMAIN q : q[i] = q[j] => i = j}

\* Entity shapes of the remote API.
AccountEntity(id, name, description) ==
    [id |-> id, display_name |-> name, description |-> description,
     metadata |-> [self |-> ServerSelf(id)]]

KeyEntity(id, owner, resource, name, description, secret) ==
    [id |-> id, metadata |-> [self |-> ServerSelf(id)],
     spec |-> [owner |-> [id |-> owner], resource |-> [id |-> resource],
               display_name |-> name, description |-> description,
               secret |-> secret]]

\* The accounts the service may report: display names are not unique.
RemoteAccounts ==
    {AccountEntity(<<"s","a","-","1">>, <<"s","v","c","-","a">>, <<"D","1">>),
     AccountEntity(<<"s","a","-","2">>, <<"s","v","c","-","a">>, <<"D","2">>),
     AccountEntity(<<"s","a","-","2">>, <<"m","y"," ","s","v","c">>, <<"D","2">>)}

Request(method, url, data) == [method |-> method, url |-> url, data |-> data]

Op(name, args, status, resp) ==
    [op |-> name, args |-> args, status |-> status, resp |-> resp]

NoArgs == [none |-> TRUE]

-----------------------------------------------------------------------------
(* IamV2Object *)

IamV2ObjectInit(self, display_name, description) ==
    LET s1 == Set(self, "_id", None)
        s2 == Set(s1, "_name", display_name)
        s3 == Set(s2, "_description", description)
        s4 == Set(s3, "_href", None)
    IN  Set(s4, "api_path", None)

\* mutant of Href: the stored link is ignored
HrefAlwaysDerived(self) == api_url \o Fmt(self.api_path) \o <<"/">> \o Fmt(self._id)

Href(self) ==
    IF Truthy(self._href) THEN self._href
    ELSE api_url \o Fmt(self.api_path) \o <<"/">> \o Fmt(self._id)

\* mutant of Updated: update() also stores the description locally
UpdatedStoresDescription(self, description) == Set(self, "_description", description)

\* The object after list(), read(), update(description) and delete().
Listed(self) == self
Readed(self) == self
Updated(self, description) == self
Deleted(self) == self

-----------------------------------------------------------------------------
(* Construction *)

ServiceAccountInit(obj_id, display_name, description) ==
    LET s0 == [cls |-> "ServiceAccount", _id |-> obj_id, _href |-> None]
        s1 == IamV2ObjectInit(s0, display_name, description)
        s2 == Set(s1, "api_path", services_accounts_path)
    IN  Set(s2, "_api_keys", <<>>)

ApiKeyInit(obj_id, display_name, description, owner_id, resource_id) ==
    LET s0 == IamV2ObjectInit([cls |-> "ApiKey"], display_name, description)
        s1 == Set(s0, "_id", obj_id)
        s2 == Set(s1, "_resource_id", resource_id)
        s3 == Set(s2, "_owner_id", owner_id)
        s4 == Set(s3, "_href", None)
        s5 == Set(s4, "api_path", api_keys_path)
    IN  Set(s5, "_secret", None)

DescriptionsOf(cls) ==
    IF cls = "ApiKey" THEN KeyDescriptions ELSE Descriptions

IdsOf(cls) == IF cls = "ApiKey" THEN KeyIds ELSE AccountIds

Init ==
    /\ calls = <<>>
    /\ created = FALSE
    /\ \/ \E display_name \in Opt(Names), description \in Opt(Descriptions) :
            /\ obj = IamV2ObjectInit([cls |-> "IamV2Object"], display_name, description)
            /\ last = Op("__init__", [obj_id |-> None, display_name |-> display_name,
                                      description |-> description], "ok", None)
       \/ \E obj_id \in Opt(AccountIds), display_name \in Opt(Names),
             description \in Opt(Descriptions) :
            /\ obj = ServiceAccountInit(obj_id, display_name, description)
            /\ last = Op("__init__", [obj_id |-> obj_id, display_name |-> display_name,
                                      description |-> description], "ok", None)
       \/ \E obj_id \in Opt(KeyIds), display_name \in Opt(KeyNames),
             description \in Opt(KeyDescriptions), owner_id \in Opt(AccountIds),
             resource_id \in Opt(ResourceIds) :
            /\ obj = ApiKeyInit(obj_id, display_name, description, owner_id, resource_id)
            /\ last = Op("__init__", [obj_id |-> obj_id, display_name |-> display_name,
                                      description |-> description, owner_id |-> owner_id,
                                      resource_id |-> resource_id], "ok", None)

-----------------------------------------------------------------------------
(* Operations of IamV2Object *)

\* obj.obj_id = id_value
SetObjId ==
    \E id_value \in Opt(IdsOf(obj.cls)) :
        /\ obj' = Set(obj, "_id", id_value)
        /\ calls' = <<>>
        /\ last' = Op("obj_id.setter", [id_value |-> id_value], "ok", None)
        /\ UNCHANGED created

\* obj.href = url
SetHref ==
    \E url \in Opt({ServerSelf(i) : i \in IdsOf(obj.cls)}) :
        /\ obj' = Set(obj, "_href", url)
        /\ calls' = <<>>
        /\ last' = Op("href.setter", [url |-> url], "ok", None)
        /\ UNCHANGED created

\* obj.href
GetHref ==
    /\ last' = Op("href", NoArgs, "ok", Href(obj))
    /\ calls' = <<>>
    /\ UNCHANGED <<obj, created>>

TransportOutcomes == {"ok", "TransportError"}

List ==
    /\ IF Truthy(obj.api_path)
       THEN \E status \in TransportOutcomes :
              /\ calls' = <<Request("GET", api_url \o Fmt(obj.api_path), None)>>
              /\ last' = Op("list", NoArgs, status, None)
       ELSE /\ calls' = <<>>
            /\ last' = Op("list", NoArgs, "ok", None)
    /\ obj' = Listed(obj)
    /\ UNCHANGED created

Read ==
    \E status \in TransportOutcomes :
        /\ calls' = <<Request("GET", Href(obj), None)>>
        /\ last' = Op("read", NoArgs, status, None)
        /\ obj' = Readed(obj)
        /\ UNCHANGED created

Update ==
    \E description \in DescriptionsOf(obj.cls), status \in TransportOutcomes :
        /\ calls' = <<Request("PATCH", Href(obj), [description |-> description])>>
        /\ last' = Op("update", [description |-> description], status, None)
        /\ obj' = Updated(obj, description)
        /\ UNCHANGED created

Delete ==
    \E status \in TransportOutcomes :
        /\ calls' = <<Request("DELETE", Href(obj), None)>>
        /\ last' = Op("delete", NoArgs, status, None)
        /\ obj' = Deleted(obj)
        /\ UNCHANGED created

-----------------------------------------------------------------------------
(* ServiceAccount *)

ServiceAccountDescription(self) ==
    IF ~Truthy(self._description) THEN Title(self._name) ELSE self._description

ServiceAccountPayload(self) ==
    [display_name |-> self._name, description |-> ServiceAccountDescription(self)]

\* mutant of ServiceAccountCreated: the self link of the response is not stored
ServiceAccountCreatedIdOnly(self, payload) == Set(self, "_id", payload.id)

\* The object after create() has parsed the response body.
ServiceAccountCreated(self, payload) ==
    Set(Set(self, "_href", payload.metadata.self), "_id", payload.id)

ServiceAccountCreate ==
    /\ obj.cls = "ServiceAccount"
    /\ UNCHANGED created
    /\ IF ~Truthy(obj._description) /\ obj._name = None
       THEN \* None has no title(): raised before the request is built
            /\ obj' = obj
            /\ calls' = <<>>
            /\ last' = Op("create", NoArgs, "AttributeError", None)
       ELSE LET req == Request("POST", api_url \o Fmt(obj.api_path),
                               ServiceAccountPayload(obj))
            IN  \/ /\ obj' = obj
                   /\ calls' = <<req>>
                   /\ last' = Op("create", NoArgs, "TransportError", None)
                \/ \E id \in AccountIds :
                     LET payload == AccountEntity(id, req.data.display_name,
                                                  req.data.description)
                     IN  /\ obj' = ServiceAccountCreated(obj, payload)
                         /\ calls' = <<req>>
                         /\ last' = Op("create", NoArgs, "ok", payload)

\* The keys the service lists for an owner: the first account owns two keys.
RemoteKeysOf(owner) ==
    IF owner /= <<"s","a","-","1">> THEN {} ELSE
    {KeyEntity(<<"k","1">>, owner, <<"r","1">>, None, None, None),
     KeyEntity(<<"k","2">>, owner, <<"r","2">>, None, None, None)}

\* mutant of ImportedKeys: the list is replaced by the imported keys
ImportedKeysReplacing(self, data) ==
    [i \in 1..Len(data) |->
        ApiKeyInit(data[i].id, None, None, self._id, data[i].spec.resource.id)]

\* The credential list after the loop of import_api_keys() over data.
ImportedKeys(self, data) ==
    self._api_keys \o
        [i \in 1..Len(data) |->
            ApiKeyInit(data[i].id, None, None, self._id, data[i].spec.resource.id)]

ImportApiKeys ==
    /\ obj.cls = "ServiceAccount"
    /\ UNCHANGED created
    /\ LET req == Request("GET",
                          api_url \o api_keys_path \o <<"?owner=">> \o Fmt(obj._id),
                          None)
       IN  \/ /\ obj' = obj
              /\ calls' = <<req>>
              /\ last' = Op("import_api_keys", NoArgs, "TransportError", None)
           \/ \E data \in DistinctSeqsUpTo(RemoteKeysOf(obj._id), MaxData) :
                /\ Len(obj._api_keys) + Len(data) <= MaxKeys
                /\ obj' = Set(obj, "_api_keys", ImportedKeys(obj, data))
                /\ calls' = <<req>>
                /\ last' = Op("import_api_keys", NoArgs, "ok", [data |-> data])

\* The four assignments from one account entity (a read body or a listing entry).
SetFromEntity(self, data) ==
    LET s1 == Set(self, "_href", data.metadata.self)
        s2 == Set(s1, "_id", data.id)
        s3 == Set(s2, "_description", data.description)
    IN  Set(s3, "_name", data.display_name)

\* The loop of set_from_read() over the listing: every matching entry assigns.
RECURSIVE SetFromListing(_, _, _)
SetFromListing(self, accounts, display_name) ==
    IF accounts = <<>> THEN self
    ELSE SetFromListing(
            IF Head(accounts).display_name = display_name
            THEN SetFromEntity(self, Head(accounts)) ELSE self,
            Tail(accounts), display_name)

SetFromRead ==
    /\ obj.cls = "ServiceAccount"
    /\ UNCHANGED created
    /\ \E display_name_arg \in Opt(LookupNames), account_id_arg \in OptArg(AccountIds) :
         LET args == [display_name |-> display_name_arg, account_id |-> account_id_arg]
             display_name == IF Truthy(display_name_arg) THEN display_name_arg
                             ELSE obj._name
             account_id == IF Truthy(account_id_arg) THEN account_id_arg ELSE obj._id
         IN  IF Truthy(account_id)
             THEN LET s1 == Set(obj, "_id", account_id)
                      req == Request("GET", Href(s1), None)
                  IN  \/ /\ obj' = s1
                         /\ calls' = <<req>>
                         /\ last' = Op("set_from_read", args, "TransportError", None)
                      \/ \E data \in RemoteAccounts :
                           /\ obj' = SetFromEntity(s1, data)
                           /\ calls' = <<req>>
                           /\ last' = Op("set_from_read", args, "ok", data)
             ELSE IF Truthy(display_name)
             THEN LET req == Request("GET", api_url \o Fmt(obj.api_path), None)
                  IN  \/ /\ obj' = obj
                         /\ calls' = <<req>>
                         /\ last' = Op("set_from_read", args, "TransportError", None)
                      \/ \E accounts \in SeqsUpTo(RemoteAccounts, MaxListing) :
                           /\ obj' = SetFromListing(obj, accounts, display_name)
                           /\ calls' = <<req>>
                           /\ last' = Op("set_from_read", args, "ok",
                                         [data |-> accounts])
             ELSE /\ obj' = obj
                  /\ calls' = <<>>
                  /\ last' = Op("set_from_read", args, "ok", None)

-----------------------------------------------------------------------------
(* ApiKey *)

\* mutant of MissingOwner: only None counts as missing
MissingOwnerNoneOnly(self, owner_id) == owner_id = None /\ self._owner_id = None

\* The two guards of create() that raise AttributeError.
MissingOwner(self, owner_id) == ~Truthy(owner_id) /\ ~Truthy(self._owner_id)
MissingResource(self, resource_id) ==
    ~Truthy(resource_id) /\ ~Truthy(self._resource_id)

\* mutant of ApiKeyPayload: the stored fields win over the arguments
ApiKeyPayloadStoredFirst(self, owner_id, resource_id, display_name, description) ==
    LET owner == IF Truthy(self._owner_id) THEN self._owner_id ELSE owner_id
        resource == IF Truthy(self._resource_id) THEN self._resource_id
                    ELSE resource_id
        name == IF Truthy(self._name) THEN self._name
                ELSE IF Truthy(display_name) THEN display_name
                ELSE Fmt(owner) \o <<":", ":">> \o Fmt(resource)
        desc == IF Truthy(self._description) THEN self._description
                ELSE IF Truthy(description) THEN description
                ELSE Title(ReplaceColons(name))
    IN  [spec |-> [owner |-> [id |-> owner], resource |-> [id |-> resource],
                   display_name |-> name, description |-> desc]]

\* The payload create() builds once both guards have passed.
ApiKeyPayload(self, owner_id, resource_id, display_name, description) ==
    LET owner == IF Truthy(owner_id) THEN owner_id ELSE self._owner_id
        resource == IF Truthy(resource_id) THEN resource_id ELSE self._resource_id
        name == IF ~Truthy(display_name) /\ ~Truthy(self._name)
                THEN Fmt(owner) \o <<":", ":">> \o Fmt(resource)
                ELSE IF ~Truthy(display_name) /\ Truthy(self._name)
                THEN self._name
                ELSE display_name
        desc == IF ~Truthy(description) /\ ~Truthy(self._description)
                THEN Title(ReplaceColons(name))
                ELSE IF ~Truthy(description) /\ Truthy(self._description)
                THEN self._description
                ELSE description
    IN  [spec |-> [owner |-> [id |-> owner], resource |-> [id |-> resource],
                   display_name |-> name, description |-> desc]]

\* mutant of ApiKeyCreated: owner and resource are left as they were stored
ApiKeyCreatedKeepsOwner(self, reply_data) ==
    LET s1 == Set(self, "_id", reply_data.id)
        s2 == Set(s1, "_href", reply_data.metadata.self)
    IN  Set(s2, "_secret", reply_data.spec.secret)

\* The object after create() has parsed the reply.
ApiKeyCreated(self, reply_data) ==
    LET spec == reply_data.spec
        s1 == Set(self, "_id", reply_data.id)
        s2 == Set(s1, "_href", reply_data.metadata.self)
        s3 == Set(s2, "_owner_id", spec.owner.id)
        s4 == Set(s3, "_resource_id", spec.resource.id)
    IN  Set(s4, "_secret", spec.secret)

\* The owner and resource the service stores for a new key: it may normalize
\* what was requested.
StoredSpecs ==
    {[owner |-> <<"s","a","-","1">>, resource |-> <<"r","1">>],
     [owner |-> <<"s","a","-","2">>, resource |-> <<"r","2">>]}

ApiKeyCreate ==
    /\ obj.cls = "ApiKey"
    /\ \E owner_id \in OptArg(CallerOwnerIds), resource_id \in Opt(CallerResourceIds),
          display_name \in Opt(KeyNames), description \in Opt(KeyDescriptions) :
         LET args == [owner_id |-> owner_id, resource_id |-> resource_id,
                      display_name |-> display_name, description |-> description]
         IN  IF MissingOwner(obj, owner_id)
             THEN /\ obj' = obj
                  /\ calls' = <<>>
                  /\ last' = Op("create", args, "AttributeError",
                                <<"O","w","n","e","r">>)
                  /\ UNCHANGED created
             ELSE IF MissingResource(obj, resource_id)
             THEN /\ obj' = obj
                  /\ calls' = <<>>
                  /\ last' = Op("create", args, "AttributeError",
                                <<"R","e","s","o","u","r","c","e">>)
                  /\ UNCHANGED created
             ELSE LET req == Request("POST", api_url \o Fmt(obj.api_path),
                                     ApiKeyPayload(obj, owner_id, resource_id,
                                                   display_name, description))
                  IN  \/ /\ obj' = obj
                         /\ calls' = <<req>>
                         /\ last' = Op("create", args, "TransportError", None)
                         /\ UNCHANGED created
                      \/ \E id \in AssignedKeyIds, stored \in StoredSpecs, secret \in Secrets :
                           LET reply_data ==
                                 KeyEntity(id, stored.owner, stored.resource,
                                           req.data.spec.display_name,
                                           req.data.spec.description, secret)
                           IN  /\ obj' = ApiKeyCreated(obj, reply_data)
                               /\ calls' = <<req>>
                               /\ last' = Op("create", args, "ok", reply_data)
                               /\ created' = TRUE

Next ==
    \/ SetObjId
    \/ SetHref
    \/ GetHref
    \/ List
    \/ Read
    \/ Update
    \/ Delete
    \/ ServiceAccountCreate
    \/ ImportApiKeys
    \/ SetFromRead
    \/ ApiKeyCreate

Spec == Init /\ [][Next]_vars

-----------------------------------------------------------------------------
(* Properties *)

IsAccount == obj.cls = "ServiceAccount"
IsKey == obj.cls = "ApiKey"

\* baseUrl + apiPathSegment + "/" + id, with the path segment of each class
\* written out.
DerivedLink(cls, id) ==
    IF cls = "ApiKey"
    THEN <<"https://api", "/iam/v2", "/api-keys", "/">> \o id
    ELSE <<"https://api", "/iam/v2", "/service-accounts", "/">> \o id

HrefAsSpecified ==
    (IsAccount \/ IsKey) =>
        /\ obj._href /= None => Href(obj) = obj._href
        /\ (obj._href = None /\ obj._id /= None) =>
              Href(obj) = DerivedLink(obj.cls, obj._id)

HrefReadIsPure ==
    last'.op = "href" =>
        /\ obj' = obj
        /\ last'.resp = Href(obj)
        /\ calls' = <<>>

\* C1: in every reachable state of a ServiceAccount or an ApiKey, href is the
\* stored self link whenever one is stored, whatever the id, and is
\* api_url + api_path + "/" + id when none is stored and the id is set;
\* reading href changes no field and issues no request.
C1_Href == [](HrefAsSpecified) /\ [][HrefReadIsPure]_vars

\* C1 witness: href was read on an object whose stored link is the link of
\* another resource than its id, and the stored link came back.
C1_Witness ==
    /\ IsAccount \/ IsKey
    /\ last.op = "href"
    /\ obj._id /= None
    /\ obj._href /= None
    /\ obj._href /= ServerSelf(obj._id)
    /\ last.resp = obj._href

\* The URLs that address the account id: the derived one and the canonical one.
TargetsAccount(url, id) ==
    url \in {DerivedLink("ServiceAccount", id), ServerSelf(id)}

FieldsFrom(self, entity) ==
    /\ self._href = entity.metadata.self
    /\ self._id = entity.id
    /\ self._description = entity.description
    /\ self._name = entity.display_name

EffectiveId(self, args) ==
    IF Truthy(args.account_id) THEN args.account_id ELSE self._id

EffectiveName(self, args) ==
    IF Truthy(args.display_name) THEN args.display_name ELSE self._name

ReadsByEffectiveId ==
    (last'.op = "set_from_read" /\ Truthy(EffectiveId(obj, last'.args))) =>
        /\ Len(calls') = 1
        /\ calls'[1].method = "GET"
        /\ TargetsAccount(calls'[1].url, EffectiveId(obj, last'.args))
        /\ last'.status = "ok" => FieldsFrom(obj', last'.resp)

\* C2: set_from_read with an effective account id (the argument, else the
\* stored id) issues exactly one GET, to the resource of that id, and on
\* success overwrites _href, _id, _description and _name from the response.
C2_ReadsByEffectiveId == [][ReadsByEffectiveId]_vars

HasMatch(accounts, display_name) ==
    \E i \in DOMAIN accounts : accounts[i].display_name = display_name

\* The first entry of a listing that has the display name.
FirstMatch(accounts, display_name) ==
    LET i == CHOOSE k \in DOMAIN accounts :
                /\ accounts[k].display_name = display_name
                /\ \A j \in 1..(k - 1) : accounts[j].display_name /= display_name
    IN  accounts[i]

AdoptsFirstMatch ==
    (/\ last'.op = "set_from_read"
     /\ last'.status = "ok"
     /\ ~Truthy(EffectiveId(obj, last'.args))
     /\ Truthy(EffectiveName(obj, last'.args))) =>
        /\ calls' = <<Request("GET", <<"https://api", "/iam/v2", "/service-accounts">>,
                             None)>>
        /\ IF HasMatch(last'.resp.data, EffectiveName(obj, last'.args))
           THEN /\ FieldsFrom(obj', FirstMatch(last'.resp.data,
                                               EffectiveName(obj, last'.args)))
                /\ obj'._api_keys = obj._api_keys
           ELSE obj' = obj

\* C3: set_from_read with a display name and no effective id lists the
\* collection and adopts _href, _id, _description and _name from the first
\* entry whose display name equals the name; with no such entry nothing changes.
C3_AdoptsFirstMatch == [][AdoptsFirstMatch]_vars

OwnerAvailable(self, args) == Truthy(args.owner_id) \/ Truthy(self._owner_id)
ResourceAvailable(self, args) ==
    Truthy(args.resource_id) \/ Truthy(self._resource_id)

MissingAttributeRaises ==
    (/\ IsKey
     /\ last'.op = "create"
     /\ ~OwnerAvailable(obj, last'.args) \/ ~ResourceAvailable(obj, last'.args)) =>
        /\ last'.status = "AttributeError"
        /\ calls' = <<>>
        /\ obj' = obj

\* C4: ApiKey.create() raises AttributeError whenever neither the argument nor
\* the stored field gives an owner id, and likewise for the resource id; no
\* request is issued and no field changes.
C4_MissingAttributeRaises == [][MissingAttributeRaises]_vars

\* C4 witness: create() raised for the owner although the resource id was
\* passed, and nothing was sent.
C4_Witness ==
    /\ IsKey
    /\ last.op = "create"
    /\ last.status = "AttributeError"
    /\ ~Truthy(last.args.owner_id)
    /\ ~Truthy(obj._owner_id)
    /\ Truthy(last.args.resource_id)
    /\ calls = <<>>

\* C5: after a successful ApiKey.create() the local _id, _href, _owner_id,
\* _resource_id and _secret are those of the reply (id, metadata.self,
\* spec.owner.id, spec.resource.id, spec.secret), not those of the request.
C5_FieldsFromReply ==
    (IsKey /\ last.op = "create" /\ last.status = "ok") =>
        /\ obj._id = last.resp.id
        /\ obj._href = last.resp.metadata.self
        /\ obj._owner_id = last.resp.spec.owner.id
        /\ obj._resource_id = last.resp.spec.resource.id
        /\ obj._secret = last.resp.spec.secret

\* C5 witness: a create() succeeded whose reply carries another owner and
\* another resource than the request.
C5_Witness ==
    /\ IsKey
    /\ last.op = "create"
    /\ last.status = "ok"
    /\ last.resp.spec.owner.id /= calls[1].data.spec.owner.id
    /\ last.resp.spec.resource.id /= calls[1].data.spec.resource.id
    /\ obj._owner_id = last.resp.spec.owner.id

\* C6: after a successful ServiceAccount.create() the local _id is the
\* response's id and _href its metadata.self, and href returns that link.
C6_AccountCreated ==
    (IsAccount /\ last.op = "create" /\ last.status = "ok") =>
        /\ obj._id = last.resp.id
        /\ obj._href = last.resp.metadata.self
        /\ Href(obj) = last.resp.metadata.self

\* C6 witness: the scenario of the specification: Account "svc-a" created,
\* the service answers id sa-1 and self link https://x/sa-1.
C6_Witness ==
    /\ IsAccount
    /\ last.op = "create"
    /\ last.status = "ok"
    /\ obj._name = <<"s","v","c","-","a">>
    /\ last.resp.id = <<"s","a","-","1">>
    /\ obj._id = <<"s","a","-","1">>
    /\ Href(obj) = <<"https://x/", "s","a","-","1">>

\* C7 (as claimed): after a successful import_api_keys() the credential list holds exactly
\* one ApiKey per entry of the response's data array, in order, with the
\* entry's id, this account's id as owner, the entry's spec.resource.id and no
\* stored link.
C7_ListIsSnapshot ==
    (IsAccount /\ last.op = "import_api_keys" /\ last.status = "ok") =>
        /\ Len(obj._api_keys) = Len(last.resp.data)
        /\ \A i \in DOMAIN obj._api_keys :
              i \in DOMAIN last.resp.data =>
                /\ obj._api_keys[i]._id = last.resp.data[i].id
                /\ obj._api_keys[i]._owner_id = obj._id
                /\ obj._api_keys[i]._resource_id = last.resp.data[i].spec.resource.id
                /\ obj._api_keys[i]._href = None
                /\ Href(obj._api_keys[i])
                     = DerivedLink("ApiKey", last.resp.data[i].id)

ImportAppends ==
    (IsAccount /\ last'.op = "import_api_keys" /\ last'.status = "ok") =>
        LET data == last'.resp.data
            old == obj._api_keys
            new == obj'._api_keys
        IN  /\ Len(new) = Len(old) + Len(data)
            /\ SubSeq(new, 1, Len(old)) = old
            /\ obj'._id = obj._id
            /\ \A i \in 1..Len(data) :
                  LET key == new[Len(old) + i]
                  IN  /\ key._id = data[i].id
                      /\ key._owner_id = obj._id
                      /\ key._resource_id = data[i].spec.resource.id
                      /\ key._href = None
                      /\ Href(key) = DerivedLink("ApiKey", data[i].id)

\* C7 (amended): after a successful import_api_keys() the credential list is
\* the list held before the call followed by exactly one ApiKey per entry of
\* the response's data array, in order, with the entry's id, this account's
\* id as owner, the entry's spec.resource.id and no stored link.
C7_ImportAppends == [][ImportAppends]_vars

\* C7 witness: an import that brought keys into a list that already held some.
C7_Witness ==
    /\ IsAccount
    /\ last.op = "import_api_keys"
    /\ last.status = "ok"
    /\ Len(last.resp.data) >= 1
    /\ Len(obj._api_keys) > Len(last.resp.data)

ReadOnlyOps == {"list", "read", "update", "delete"}

ReadOnlyOpsKeepFields == last'.op \in ReadOnlyOps => obj' = obj

SecretOnlyFromCreate == (IsKey /\ ~created) => obj._secret = None

\* C8: list(), read(), update(description) and delete() leave every local
\* field unchanged, and an ApiKey's _secret is None in every state that no
\* successful create() precedes.
C8_ReadOnlyOps == [](SecretOnlyFromCreate) /\ [][ReadOnlyOpsKeepFields]_vars

\* C8 witness: update() was called with another description on an ApiKey
\* that holds a secret, and both are as before.
C8_Witness ==
    /\ IsKey
    /\ created
    /\ obj._secret /= None
    /\ last.op = "update"
    /\ last.status = "ok"
    /\ last.args.description /= obj._description

\* argument, else stored field, else default
Resolve(explicit, stored, default) ==
    IF Truthy(explicit) THEN explicit
    ELSE IF Truthy(stored) THEN stored
    ELSE default

ExpectedPayload(self, args) ==
    LET owner == Resolve(args.owner_id, self._owner_id, None)
        resource == Resolve(args.resource_id, self._resource_id, None)
        name == Resolve(args.display_name, self._name,
                        owner \o <<":", ":">> \o resource)
        desc == Resolve(args.description, self._description,
                        Title(ReplaceColons(name)))
    IN  [spec |-> [owner |-> [id |-> owner], resource |-> [id |-> resource],
                   display_name |-> name, description |-> desc]]

PayloadResolved ==
    (IsKey /\ last'.op = "create" /\ last'.status /= "AttributeError") =>
        calls' = <<Request("POST", <<"https://api", "/iam/v2", "/api-keys">>,
                           ExpectedPayload(obj, last'.args))>>

C10_ConstructedId ==
    (/\ IsAccount \/ IsKey
     /\ last.op = "__init__"
     /\ last.args.obj_id /= None) =>
        /\ obj._id = last.args.obj_id
        /\ Href(obj) = DerivedLink(obj.cls, last.args.obj_id)

=============================================================================
